---- MODULE Spec2Model ----
(***************************************************************************)
(* A model of src/server.py, the arXiv MCP server: the text normalizer     *)
(* format_text, the resolver get_url_and_arxiv_id, the fetcher get_pdf and *)
(* the three tools get_article_url, download_article and                   *)
(* load_article_to_context, run as coroutines on one asyncio event loop.   *)
(*                                                                         *)
(* Strings whose characters matter (titles, entry ids, URLs, paths, file   *)
(* contents) are sequences of one-character strings.  "LF" and "TAB" name  *)
(* the real line-feed and tab characters; "\\" is one backslash.           *)
(* The fixed messages of the program are TLA+ strings.                     *)
(*                                                                         *)
(* Environment, outside the repository: the HTTP exchange (its outcome is  *)
(* chosen nondeterministically), the reply of the search endpoint (given  *)
(* as the sequence of its entries' ids, which is what feedparser.parse     *)
(* makes of it; every entry carries an id, as Atom requires), the PDF      *)
(* library (a document opens iff it starts with the "%" of "%PDF"; each    *)
(* further byte is one page holding that character) and the filesystem     *)
(* (open(path, "wb") succeeds iff the parent directory exists and is       *)
(* writable and the path is no directory; a write that fails after a       *)
(* successful open is not modelled).                                       *)
(***************************************************************************)
EXTENDS Integers, Sequences, FiniteSets, TLC

\* ------------------------------------------------------------------ bounds
\* Concurrent tool invocations on the event loop.
NumInv == 2
\* Longest raw title given to format_text in SpecFormat.
MaxTitleLen == 5
\* Longest entry id, in chunks of IdChunks, given to the resolver in SpecResolve.
MaxIdChunks == 5

\* --------------------------------------------------------- string helpers
Last(s) == s[Len(s)]

\* s[i .. i+Len(sep)-1] = sep
MatchAt(s, sep, i) ==
    /\ i >= 1
    /\ i + Len(sep) - 1 <= Len(s)
    /\ SubSeq(s, i, i + Len(sep) - 1) = sep

RECURSIVE Concat(_)
Concat(ss) == IF ss = <<>> THEN <<>> ELSE Head(ss) \o Concat(Tail(ss))

\* ----------------------------------------------------------- format_text
\* Python's str.isspace / the regex class \s, over the characters modelled.
IsSpace(c) == c \in {" ", "TAB", "LF"}

\* re.sub(r'\\[ntr]', ' ', text): left to right, non-overlapping.
RECURSIVE SubEscapes(_, _)
SubEscapes(text, i) ==
    IF i > Len(text) THEN <<>>
    ELSE IF text[i] = "\\" /\ i < Len(text) /\ text[i + 1] \in {"n", "t", "r"}
         THEN <<" ">> \o SubEscapes(text, i + 2)
         ELSE <<text[i]>> \o SubEscapes(text, i + 1)

\* re.sub(r'\s+', ' ', text): every maximal run of whitespace becomes one space.
RECURSIVE CollapseSpaces(_, _)
CollapseSpaces(text, i) ==
    IF i > Len(text) THEN <<>>
    ELSE IF IsSpace(text[i])
         THEN IF i > 1 /\ IsSpace(text[i - 1])
              THEN CollapseSpaces(text, i + 1)
              ELSE <<" ">> \o CollapseSpaces(text, i + 1)
         ELSE <<text[i]>> \o CollapseSpaces(text, i + 1)

\* str.strip(): drop leading and trailing whitespace.
RECURSIVE LStrip(_)
LStrip(text) ==
    IF text # <<>> /\ IsSpace(Head(text)) THEN LStrip(Tail(text)) ELSE text

RECURSIVE RStrip(_)
RStrip(text) ==
    IF text # <<>> /\ IsSpace(Last(text))
    THEN RStrip(SubSeq(text, 1, Len(text) - 1))
    ELSE text

Strip(text) == LStrip(RStrip(text))

format_text_NoStrip(text) ==
    CollapseSpaces(SubEscapes(text, 1), 1)

format_text_NoEscapes(text) ==
    Strip(CollapseSpaces(text, 1))

format_text(text) ==
    LET text_without_escapes == SubEscapes(text, 1)
        text_single_spaced == CollapseSpaces(text_without_escapes, 1)
        cleaned_text == Strip(text_single_spaced)
    IN  cleaned_text

\* ------------------------------------------------- make_api_call, get_pdf
\* How an HTTP exchange can end; every kind but "ok" makes client.get or
\* raise_for_status raise.
FailureKinds == {"network_error", "timeout", "bad_status"}

None == [isNone |-> TRUE, val |-> <<>>]
Some(v) == [isNone |-> FALSE, val |-> v]

Failed(kind) == [kind |-> kind, body |-> <<>>]
Ok(body) == [kind |-> "ok", body |-> body]

\* response.text on success, None on any exception.
make_api_call(outcome) ==
    IF outcome.kind = "ok" THEN Some(outcome.body) ELSE None

get_pdf_Corrupting(outcome) ==
    IF outcome.kind = "ok" THEN Some(outcome.body) ELSE Some(<<>>)

\* response.content on success, None on any exception.
get_pdf(outcome) ==
    IF outcome.kind = "ok" THEN Some(outcome.body) ELSE None

\* --------------------------------------------------- get_url_and_arxiv_id
ERR_RETRIEVE_DATA == "Unable to retrieve data from arXiv.org."
ERR_EXTRACT_ID == "Unable to extract arXiv ID for the provided title. This issue may stem from an incorrect or incomplete title, or because the work has not been published on arXiv."
ERR_RETRIEVE_ARTICLE == "Unable to retrieve the article from arXiv.org."
ERR_SAVE == "Unable to save the article to local directory."
MSG_DOWNLOADED == "Download successful. Find the PDF at {DOWNLOAD_PATH}."

AbsSep == <<"/", "a", "b", "s", "/">>
PdfUrlPrefix ==
    <<"h", "t", "t", "p", "s", ":", "/", "/", "a", "r", "x", "i", "v", ".",
      "o", "r", "g", "/", "p", "d", "f", "/">>

\* str.split(sep): the pieces between the non-overlapping occurrences of sep
\* found from left to right.
RECURSIVE SplitFrom(_, _, _, _)
SplitFrom(s, sep, i, start) ==
    IF i + Len(sep) - 1 > Len(s) THEN <<SubSeq(s, start, Len(s))>>
    ELSE IF MatchAt(s, sep, i)
         THEN <<SubSeq(s, start, i - 1)>>
              \o SplitFrom(s, sep, i + Len(sep), i + Len(sep))
         ELSE SplitFrom(s, sep, i + 1, start)

str_split(s, sep) == SplitFrom(s, sep, 1, 1)

\* The resolver's two kinds of result: an error string or a (url, id) pair.
ResStr(msg) == [isStr |-> TRUE, str |-> msg, url |-> <<>>, id |-> <<>>]
ResPair(url, id) == [isStr |-> FALSE, str |-> "", url |-> url, id |-> id]

\* feedparser.parse(data): the reply is given as the ids of its entries.
feedparser_parse(data) == [entries |-> data]

get_url_and_arxiv_id_LastEntry(data) ==
    IF data.isNone THEN ResStr(ERR_RETRIEVE_DATA)
    ELSE LET feed == feedparser_parse(data.val) IN
         IF feed.entries = <<>> THEN ResStr(ERR_EXTRACT_ID)
         ELSE LET entry == Last(feed.entries)
                  arxiv_id == Last(str_split(entry, AbsSep))
              IN  ResPair(PdfUrlPrefix \o arxiv_id, arxiv_id)

get_url_and_arxiv_id_SwappedErrors(data) ==
    IF data.isNone THEN ResStr(ERR_EXTRACT_ID)
    ELSE LET feed == feedparser_parse(data.val) IN
         IF feed.entries = <<>> THEN ResStr(ERR_RETRIEVE_DATA)
         ELSE LET entry == feed.entries[1]
                  arxiv_id == Last(str_split(entry, AbsSep))
              IN  ResPair(PdfUrlPrefix \o arxiv_id, arxiv_id)

\* The resolver from the point where make_api_call has returned `data`.
get_url_and_arxiv_id(data) ==
    IF data.isNone THEN ResStr(ERR_RETRIEVE_DATA)
    ELSE LET feed == feedparser_parse(data.val) IN
         IF feed.entries = <<>> THEN ResStr(ERR_EXTRACT_ID)
         ELSE LET entry == feed.entries[1]
                  arxiv_id == Last(str_split(entry, AbsSep))
                  direct_pdf_url == PdfUrlPrefix \o arxiv_id
              IN  ResPair(direct_pdf_url, arxiv_id)

\* payload = {"search_query": f'ti:"{title}"'}
SearchPayload(title) == <<"t", "i", ":", "\"">> \o title \o <<"\"">>

\* ------------------------------------------------------------ filesystem
RECURSIVE LastSlash(_, _)
LastSlash(p, i) == IF i = 0 \/ p[i] = "/" THEN i ELSE LastSlash(p, i - 1)

RECURSIVE RStripSlash(_)
RStripSlash(p) ==
    IF p # <<>> /\ Last(p) = "/" THEN RStripSlash(SubSeq(p, 1, Len(p) - 1)) ELSE p

\* os.path.join(a, b) on POSIX: an absolute b discards a.
os_path_join(a, b) ==
    IF b # <<>> /\ b[1] = "/" THEN b
    ELSE IF a = <<>> \/ Last(a) = "/" THEN a \o b
    ELSE a \o <<"/">> \o b

\* os.path.dirname(p) on POSIX.
os_path_dirname(p) ==
    LET head == SubSeq(p, 1, LastSlash(p, Len(p))) IN
    IF head # <<>> /\ RStripSlash(head) # <<>> THEN RStripSlash(head) ELSE head

\* open(path, "wb") succeeds iff the parent is an existing writable directory
\* and the path itself is no directory.
CanOpen(ds, path) == os_path_dirname(path) \in ds /\ path \notin ds

WriteFile_Append(fs, path, doc) ==
    [p \in DOMAIN fs \cup {path} |->
        IF p = path THEN (IF path \in DOMAIN fs THEN fs[path] ELSE <<>>) \o doc
        ELSE fs[p]]

\* with open(path, "wb") as file: file.write(doc) -- create or truncate, then
\* write the whole buffer.
WriteFile(fs, path, doc) ==
    [p \in DOMAIN fs \cup {path} |-> IF p = path THEN doc ELSE fs[p]]

PdfSuffix == <<".", "p", "d", "f">>

\* ---------------------------------------------------------- tool bodies
\* A tool's return value: a fixed message, or "{}" filled with `arg`
\* (MSG_DOWNLOADED is filled with the download directory).
Ret(msg, arg) == [msg |-> msg, arg |-> arg]
NoRet == Ret("", <<>>)

\* What a tool does once resolved: return at once, or go on to fetch.
Step(return, ret, exc, events, fs, path) ==
    [return |-> return, ret |-> ret, exc |-> exc, events |-> events,
     files |-> fs, path |-> path]

\* get_article_url, lines 83-86.
get_article_url_Return(result) ==
    IF result.isStr THEN Ret(result.str, <<>>) ELSE Ret("{}", result.url)

ReturnsResolverError_Never(result) == FALSE

\* download_article / load_article_to_context, lines 102-104 / 130-132:
\* TRUE when the tool returns the resolver's error string.
ReturnsResolverError(result) == result.isStr

\* download_article, lines 106-114, with get_pdf's result in pdf_doc.
download_article_Save(pdf_doc, arxiv_id, download_path, ds, fs) ==
    IF pdf_doc.isNone
    THEN Step(TRUE, Ret(ERR_RETRIEVE_ARTICLE, <<>>), "", <<>>, fs, <<>>)
    ELSE IF download_path.isNone
    THEN Step(FALSE, NoRet, "TypeError", <<>>, fs, <<>>)
    ELSE LET file_path == os_path_join(download_path.val, arxiv_id \o PdfSuffix) IN
         IF CanOpen(ds, file_path)
         THEN Step(TRUE, Ret(MSG_DOWNLOADED, download_path.val), "",
                   <<"write">>, WriteFile(fs, file_path, pdf_doc.val), file_path)
         ELSE Step(TRUE, Ret(ERR_SAVE, <<>>), "", <<"open_failed">>, fs, file_path)

\* fitz.open(stream=..., filetype="pdf") raises on bytes that are no PDF.
fitz_opens(doc) == doc # <<>> /\ doc[1] = "%"
\* The pages of an opened document, and page.get_text().
fitz_pages(doc) == Tail(doc)
get_text(page) == <<page>>

RECURSIVE ConcatPages(_, _)
ConcatPages(pages, content) ==
    IF pages = <<>> THEN content
    ELSE ConcatPages(Tail(pages), content \o get_text(Head(pages)))

load_article_to_context_Extract_NoNoneCheck(pdf_doc, fs) ==
    IF pdf_doc.isNone \/ ~fitz_opens(pdf_doc.val)
    THEN Step(FALSE, NoRet, "FileDataError", <<"extract">>, fs, <<>>)
    ELSE Step(TRUE, Ret("{}", ConcatPages(fitz_pages(pdf_doc.val), <<>>)), "",
              <<"extract">>, fs, <<>>)

\* load_article_to_context, lines 134-140, with get_pdf's result in pdf_doc.
load_article_to_context_Extract(pdf_doc, fs) ==
    IF pdf_doc.isNone
    THEN Step(TRUE, Ret(ERR_RETRIEVE_ARTICLE, <<>>), "", <<>>, fs, <<>>)
    ELSE IF ~fitz_opens(pdf_doc.val)
    THEN Step(FALSE, NoRet, "FileDataError", <<"extract">>, fs, <<>>)
    ELSE Step(TRUE, Ret("{}", ConcatPages(fitz_pages(pdf_doc.val), <<>>)), "",
              <<"extract">>, fs, <<>>)

\* ------------------------------------------------------------------ state
VARIABLES
    DOWNLOAD_PATH,  \* os.getenv("DOWNLOAD_PATH"), read once at import: None or a path
    dirs,           \* the existing writable directories of the host
    files,          \* the regular files written so far: path -> content
    lastWriter,     \* history: path -> the invocation whose open() of it succeeded last
    inv,            \* the tool invocations (coroutines) on the event loop
    ft_in, ft_out, ft_done,     \* SpecFormat: one call of format_text
    rs_in, rs_out, rs_done      \* SpecResolve: one call of the resolver

vars == <<DOWNLOAD_PATH, dirs, files, lastWriter, inv,
          ft_in, ft_out, ft_done, rs_in, rs_out, rs_done>>

Inv == 1 .. NumInv

\* The raw titles a caller passes in Spec: empty, whitespace only, a lone
\* escape artifact, and one with an artifact and irregular whitespace.
Titles == { <<>>, <<" ", "TAB">>, <<"\\", "t">>, <<"A", "\\", "n", "B", " ">> }

\* Entry ids: a new-style id, an old-style id (archive/number).
NewStyleId == <<"u", "/", "a", "b", "s", "/", "1">>
OldStyleId == <<"u", "/", "a", "b", "s", "/", "h", "/", "2">>
Feeds == { <<>>, <<NewStyleId>>, <<OldStyleId, NewStyleId>> }

\* Response bodies of the PDF endpoint: two documents and an HTML page.
Bodies == { <<"%", "a", "b">>, <<"%", "c">>, <<"<">> }

SearchOutcomes == {Failed(k) : k \in FailureKinds} \cup {Ok(f) : f \in Feeds}
FetchOutcomes == {Failed(k) : k \in FailureKinds} \cup {Ok(b) : b \in Bodies}

DownloadDir == <<"/", "d">>
ArchiveDir == <<"/", "d", "/", "h">>

NotYet == Failed("none")
EmptyFiles == [p \in {} |-> <<>>]

Idle ==
    [pc |-> "idle", tool |-> "none", title |-> <<>>, formatted_title |-> <<>>,
     payload |-> <<>>, search |-> NotYet, result |-> ResStr(""),
     fetch |-> NotYet, pdf_doc |-> None, ret |-> NoRet, exc |-> "",
     calls |-> <<>>, file_path |-> <<>>]

InitPure ==
    /\ ft_in = <<>> /\ ft_out = <<>> /\ ft_done = FALSE
    /\ rs_in = NotYet /\ rs_out = ResStr("") /\ rs_done = FALSE

Init ==
    /\ DOWNLOAD_PATH \in {None, Some(DownloadDir)}
    /\ dirs \in { {}, {DownloadDir}, {DownloadDir, ArchiveDir} }
    /\ files = EmptyFiles
    /\ lastWriter = EmptyFiles
    /\ inv = [i \in Inv |-> Idle]
    /\ InitPure

PureUnchanged == UNCHANGED <<ft_in, ft_out, ft_done, rs_in, rs_out, rs_done>>
HostUnchanged == UNCHANGED <<DOWNLOAD_PATH, dirs>>

\* ---------------------------------------------------------------- actions
\* Lines 81-82 / 100-101 / 128-129 up to the await of client.get in
\* make_api_call: the title is normalized and the search request is sent.
StartSearch(i, tool, title) ==
    /\ inv[i].pc = "idle"
    /\ LET formatted_title == format_text(title) IN
       inv' = [inv EXCEPT ![i] =
                 [@ EXCEPT !.pc = "await_search", !.tool = tool, !.title = title,
                           !.formatted_title = formatted_title,
                           !.payload = SearchPayload(formatted_title),
                           !.calls = <<"search">>]]
    /\ UNCHANGED <<files, lastWriter>>
    /\ HostUnchanged /\ PureUnchanged

\* The invocation ends: it returns `step.ret`, or raises `step.exc`.
Finish(i, r, step) ==
    [r EXCEPT !.pc = IF step.return THEN "returned" ELSE "raised",
              !.ret = step.ret, !.exc = step.exc,
              !.calls = @ \o step.events, !.file_path = step.path]

\* The search reply arrives and the resolver returns.  The title and the
\* request are not read again (dead locals), so they are dropped.
Resolved(i, outcome) ==
    [inv[i] EXCEPT !.search = outcome,
                   !.result = get_url_and_arxiv_id(make_api_call(outcome)),
                   !.title = <<>>, !.formatted_title = <<>>, !.payload = <<>>]

\* The fetch request is sent: the await of client.get in get_pdf.
StartFetch(r) == [r EXCEPT !.pc = "await_fetch", !.calls = @ \o <<"fetch">>]

get_article_url_Call(i) ==
    \E title \in Titles : StartSearch(i, "get_article_url", title)

get_article_url_Resume(i) ==
    /\ inv[i].pc = "await_search" /\ inv[i].tool = "get_article_url"
    /\ \E outcome \in SearchOutcomes :
         LET r == Resolved(i, outcome) IN
         inv' = [inv EXCEPT ![i] =
                   Finish(i, r, Step(TRUE, get_article_url_Return(r.result), "",
                                     <<>>, files, <<>>))]
    /\ UNCHANGED <<files, lastWriter>>
    /\ HostUnchanged /\ PureUnchanged

download_article_Call(i) ==
    \E title \in Titles : StartSearch(i, "download_article", title)

\* Lines 101-105: the resolver returned; return its error or send the fetch.
AfterSearch(i, tool) ==
    /\ inv[i].pc = "await_search" /\ inv[i].tool = tool
    /\ \E outcome \in SearchOutcomes :
         LET r == Resolved(i, outcome) IN
         inv' = [inv EXCEPT ![i] =
                   IF ReturnsResolverError(r.result)
                   THEN Finish(i, r, Step(TRUE, Ret(r.result.str, <<>>), "",
                                          <<>>, files, <<>>))
                   ELSE StartFetch(r)]
    /\ UNCHANGED <<files, lastWriter>>
    /\ HostUnchanged /\ PureUnchanged

download_article_AfterSearch(i) == AfterSearch(i, "download_article")

\* Lines 105-114: the fetch reply arrives; the file is opened, written and
\* closed without another await, so in one step of the event loop.
download_article_AfterFetch(i) ==
    /\ inv[i].pc = "await_fetch" /\ inv[i].tool = "download_article"
    /\ \E outcome \in FetchOutcomes :
         LET pdf_doc == get_pdf(outcome)
             step == download_article_Save(pdf_doc, inv[i].result.id,
                                           DOWNLOAD_PATH, dirs, files)
             r == [inv[i] EXCEPT !.fetch = outcome, !.pdf_doc = pdf_doc]
         IN  /\ inv' = [inv EXCEPT ![i] = Finish(i, r, step)]
             /\ files' = step.files
             /\ lastWriter' =
                  IF "write" \in {step.events[k] : k \in DOMAIN step.events}
                  THEN [p \in DOMAIN lastWriter \cup {step.path} |->
                          IF p = step.path THEN i ELSE lastWriter[p]]
                  ELSE lastWriter
    /\ HostUnchanged /\ PureUnchanged

load_article_to_context_Call(i) ==
    \E title \in Titles : StartSearch(i, "load_article_to_context", title)

load_article_to_context_AfterSearch(i) == AfterSearch(i, "load_article_to_context")

\* Lines 133-140: the fetch reply arrives; the text is extracted.
load_article_to_context_AfterFetch(i) ==
    /\ inv[i].pc = "await_fetch" /\ inv[i].tool = "load_article_to_context"
    /\ \E outcome \in FetchOutcomes :
         LET pdf_doc == get_pdf(outcome)
             step == load_article_to_context_Extract(pdf_doc, files)
             r == [inv[i] EXCEPT !.fetch = outcome, !.pdf_doc = pdf_doc]
         IN  inv' = [inv EXCEPT ![i] = Finish(i, r, step)]
    /\ UNCHANGED <<files, lastWriter>>
    /\ HostUnchanged /\ PureUnchanged

Next ==
    \E i \in Inv :
        \/ get_article_url_Call(i)
        \/ get_article_url_Resume(i)
        \/ download_article_Call(i)
        \/ download_article_AfterSearch(i)
        \/ download_article_AfterFetch(i)
        \/ load_article_to_context_Call(i)
        \/ load_article_to_context_AfterSearch(i)
        \/ load_article_to_context_AfterFetch(i)

Spec == Init /\ [][Next]_vars

\* ------------------------------------------------ the pure functions alone
\* All sequences over S of length at most n.
SeqsUpTo(S, n) == UNION {[1 .. k -> S] : k \in 0 .. n}

\* The tools are not running.
InitQuiet ==
    /\ DOWNLOAD_PATH = None
    /\ dirs = {}
    /\ files = EmptyFiles
    /\ lastWriter = EmptyFiles
    /\ inv = [i \in Inv |-> Idle]

MainUnchanged == UNCHANGED <<DOWNLOAD_PATH, dirs, files, lastWriter, inv>>

\* The characters of a raw title: a backslash, the three letters that make an
\* escape artifact with it, a space, a tab and another letter.
TitleChars == {"\\", "n", "t", "r", " ", "TAB", "A"}

InitFormat ==
    /\ InitQuiet
    /\ ft_in \in SeqsUpTo(TitleChars, MaxTitleLen)
    /\ ft_out = <<>> /\ ft_done = FALSE
    /\ rs_in = NotYet /\ rs_out = ResStr("") /\ rs_done = FALSE

\* format_text(ft_in) is called and returns.
FormatText ==
    /\ ~ft_done
    /\ ft_out' = format_text(ft_in)
    /\ ft_done' = TRUE
    /\ UNCHANGED <<ft_in, rs_in, rs_out, rs_done>>
    /\ MainUnchanged

NextFormat == FormatText

SpecFormat == InitFormat /\ [][NextFormat]_vars

\* Entry ids are built from these pieces, so that "/abs/" occurs in them never,
\* once, several times, and overlapping ("/abs/abs/").
IdChunks == { <<"/">>, <<"a", "b", "s">>, <<"1">> }
ChunkIds == {Concat(cs) : cs \in SeqsUpTo(IdChunks, MaxIdChunks)}
LaterEntries == { <<>>, <<NewStyleId>>, <<OldStyleId>> }
ResolveFeeds == { <<>> } \cup { <<id>> \o rest : id \in ChunkIds, rest \in LaterEntries }

InitResolve ==
    /\ InitQuiet
    /\ rs_in \in {Failed(k) : k \in FailureKinds} \cup {Ok(f) : f \in ResolveFeeds}
    /\ rs_out = ResStr("") /\ rs_done = FALSE
    /\ ft_in = <<>> /\ ft_out = <<>> /\ ft_done = FALSE

\* The search ends as rs_in says and get_url_and_arxiv_id returns.
Resolve ==
    /\ ~rs_done
    /\ rs_out' = get_url_and_arxiv_id(make_api_call(rs_in))
    /\ rs_done' = TRUE
    /\ UNCHANGED <<rs_in, ft_in, ft_out, ft_done>>
    /\ MainUnchanged

NextResolve == Resolve

SpecResolve == InitResolve /\ [][NextResolve]_vars

\* ------------------------------------------------------------ properties
Elems(s) == {s[k] : k \in DOMAIN s}

\* A literal backslash followed by n, t or r.
HasArtifact(s) ==
    \E k \in 1 .. Len(s) - 1 : s[k] = "\\" /\ s[k + 1] \in {"n", "t", "r"}

\* Two whitespace characters in a row.
HasSpaceRun(s) == \E k \in 1 .. Len(s) - 1 : IsSpace(s[k]) /\ IsSpace(s[k + 1])

Trimmed(s) == s = <<>> \/ (~IsSpace(s[1]) /\ ~IsSpace(Last(s)))

Clean(s) == ~HasArtifact(s) /\ ~HasSpaceRun(s) /\ Trimmed(s)

\* Every character of s is whitespace or belongs to an escape artifact.
OnlyBlank(s) ==
    \A k \in 1 .. Len(s) :
        \/ IsSpace(s[k])
        \/ s[k] = "\\" /\ k < Len(s) /\ s[k + 1] \in {"n", "t", "r"}
        \/ s[k] \in {"n", "t", "r"} /\ k > 1 /\ s[k - 1] = "\\"

ResolverFailed(r) == r.search.kind # "none" /\ r.result.isStr
Ended(r) == r.pc \in {"returned", "raised"}

\* C1: in each of the three tools, once the resolver has returned an error
\* string (the search failed, or the feed has no entry), the tool has returned
\* exactly that string, and the invocation made no fetch, no file write and
\* no text extraction: the search is its only call.
C1_ResolverErrorReturnedVerbatim ==
    \A i \in Inv :
        ResolverFailed(inv[i]) =>
            /\ inv[i].pc = "returned"
            /\ inv[i].ret = Ret(inv[i].result.str, <<>>)
            /\ inv[i].ret.msg =
                 (IF inv[i].search.kind = "ok" THEN ERR_EXTRACT_ID ELSE ERR_RETRIEVE_DATA)
            /\ inv[i].calls = <<"search">>
            /\ inv[i].file_path = <<>>

\* Each tool has returned the resolver's error, one after a failed search and
\* the others on an empty feed.
C1_Witness ==
    \E i, j \in Inv :
        /\ i # j
        /\ inv[i].tool = "download_article" /\ inv[i].pc = "returned"
        /\ inv[i].search.kind = "timeout" /\ inv[i].ret.msg = ERR_RETRIEVE_DATA
        /\ inv[j].tool = "load_article_to_context" /\ inv[j].pc = "returned"
        /\ inv[j].search = Ok(<<>>) /\ inv[j].ret.msg = ERR_EXTRACT_ID

\* The path the claim names: <download directory>/<identifier>.pdf.
ClaimedPath(id) == DownloadDir \o <<"/">> \o id \o PdfSuffix

\* C2 (as claimed): when download_article resumes with a successful fetch,
\* after a successful resolution and with the download directory configured and
\* writable, it returns the success message naming that directory and the file
\* <identifier>.pdf in it then holds exactly the fetched body.
C2_DownloadWritesFile ==
    [][\A i \in Inv :
          ( /\ inv[i].pc = "await_fetch" /\ inv[i].tool = "download_article"
            /\ inv'[i].pc # "await_fetch" /\ inv'[i].fetch.kind = "ok"
            /\ DOWNLOAD_PATH = Some(DownloadDir) /\ DownloadDir \in dirs )
          => /\ inv'[i].pc = "returned"
             /\ inv'[i].ret = Ret(MSG_DOWNLOADED, DownloadDir)
             /\ ClaimedPath(inv[i].result.id) \in DOMAIN files'
             /\ files'[ClaimedPath(inv[i].result.id)] = inv'[i].fetch.body]_vars

\* C3: when the resolution succeeded and the fetch fails (network error,
\* timeout or bad status), download_article and load_article_to_context return
\* "Unable to retrieve the article from arXiv.org." and that step leaves every
\* file as it was: none created, truncated or written.
C3_FetchFailureLeavesFiles ==
    [][\A i \in Inv :
          ( /\ inv[i].pc = "await_fetch"
            /\ inv'[i].fetch.kind \in FailureKinds )
          => /\ inv'[i].pc = "returned"
             /\ inv'[i].ret = Ret(ERR_RETRIEVE_ARTICLE, <<>>)
             /\ files' = files
             /\ inv'[i].file_path = <<>>
             /\ inv'[i].calls = <<"search", "fetch">>]_vars

\* A download whose fetch timed out has returned while a file written by
\* another invocation exists.
C3_Witness ==
    \E i \in Inv :
        /\ inv[i].tool = "download_article" /\ inv[i].pc = "returned"
        /\ inv[i].fetch.kind = "timeout"
        /\ inv[i].ret.msg = ERR_RETRIEVE_ARTICLE
        /\ ClaimedPath(inv[i].result.id) \in DOMAIN files

\* C4 (as claimed): every invocation of a tool ends by returning a string,
\* never by raising, whatever fails: the search, the feed, the fetch, the file
\* write, the document bytes or the download directory's configuration.
C4_ToolsNeverRaise ==
    \A i \in Inv : inv[i].pc # "raised"

\* C9: no retry.  An invocation's calls are, in order, one search, then at most
\* one fetch, then at most one file write or text extraction; the fetch follows
\* only a feed with an entry, the write or extraction only a successful fetch,
\* and a failed search or fetch ends the invocation with its error string.
C9_NoRetry ==
    \A i \in Inv :
        LET r == inv[i]
            c == r.calls
        IN  /\ c \in { <<>>, <<"search">>, <<"search", "fetch">>,
                       <<"search", "fetch", "write">>,
                       <<"search", "fetch", "open_failed">>,
                       <<"search", "fetch", "extract">> }
            /\ "fetch" \in Elems(c) => r.search.kind = "ok" /\ r.search.body # <<>>
            /\ Len(c) = 3 => r.fetch.kind = "ok"
            /\ r.search.kind \in FailureKinds =>
                 /\ r.pc = "returned" /\ c = <<"search">>
                 /\ r.ret = Ret(ERR_RETRIEVE_DATA, <<>>)
            /\ r.fetch.kind \in FailureKinds =>
                 /\ r.pc = "returned" /\ c = <<"search", "fetch">>
                 /\ r.ret = Ret(ERR_RETRIEVE_ARTICLE, <<>>)
            /\ (r.pc = "await_search") = (c = <<"search">> /\ r.search = NotYet)
            /\ (r.pc = "await_fetch") = (c = <<"search", "fetch">> /\ r.fetch = NotYet)

\* One invocation ended on a failed fetch after its one search, another went
\* through search, fetch and extraction.
C9_Witness ==
    \E i, j \in Inv :
        /\ inv[i].fetch.kind = "bad_status" /\ inv[i].pc = "returned"
        /\ inv[j].calls = <<"search", "fetch", "extract">> /\ inv[j].pc = "returned"

\* C5: the resolver's result is decided by how the search ended: the
\* "Unable to retrieve data" string exactly when the call failed (network
\* error, timeout and bad status alike), the "Unable to extract arXiv ID"
\* string exactly when it succeeded with a feed of zero entries, and a
\* (url, identifier) pair exactly when the feed has an entry.
C5_ResolverResultByOutcome ==
    rs_done =>
        /\ (rs_out = ResStr(ERR_RETRIEVE_DATA)) = (rs_in.kind \in FailureKinds)
        /\ (rs_out = ResStr(ERR_EXTRACT_ID)) = (rs_in.kind = "ok" /\ rs_in.body = <<>>)
        /\ (~rs_out.isStr) = (rs_in.kind = "ok" /\ rs_in.body # <<>>)
        /\ rs_out.isStr => rs_out.url = <<>> /\ rs_out.id = <<>>

\* The search succeeded with an empty feed and the resolver has returned the
\* extraction error.
C5_Witness ==
    /\ rs_done /\ rs_in = Ok(<<>>)
    /\ rs_out.isStr /\ rs_out.str = ERR_EXTRACT_ID

\* Where "/abs/" occurs in an id.
Occurrences(id) == {k \in 1 .. Len(id) : MatchAt(id, AbsSep, k)}
Overlapping(id) ==
    \E j, k \in Occurrences(id) : j < k /\ k < j + Len(AbsSep)

Max(S) == CHOOSE m \in S : \A k \in S : k <= m

\* The suffix of id after the occurrence of "/abs/" at k.
SuffixAfter(id, k) == SubSeq(id, k + Len(AbsSep), Len(id))

\* The suffix after the last occurrence of "/abs/"; the whole id when there is none.
SuffixAfterLastAbs(id) ==
    IF Occurrences(id) = {} THEN id ELSE SuffixAfter(id, Max(Occurrences(id)))

\* The occurrences a scan from the left takes when it skips every occurrence
\* that overlaps one it has taken.
ScannedOccurrences(id) ==
    LET taken[k \in 0 .. Len(id)] ==
            IF k = 0 THEN {}
            ELSE IF k \in Occurrences(id)
                    /\ \A j \in taken[k - 1] : j + Len(AbsSep) <= k
                 THEN taken[k - 1] \cup {k}
                 ELSE taken[k - 1]
    IN  taken[Len(id)]

SuffixAfterLastScanned(id) ==
    IF ScannedOccurrences(id) = {} THEN id
    ELSE SuffixAfter(id, Max(ScannedOccurrences(id)))

ResolvedPair == rs_done /\ rs_in.kind = "ok" /\ rs_in.body # <<>>

\* C6 (as claimed): for a feed with an entry, the identifier is the suffix of
\* the first entry's id after the last occurrence of "/abs/" (the whole id when
\* there is none) and the URL is "https://arxiv.org/pdf/" followed by it.
C6_IdAfterLastAbs ==
    ResolvedPair =>
        /\ rs_out.id = SuffixAfterLastAbs(rs_in.body[1])
        /\ rs_out.url = PdfUrlPrefix \o rs_out.id

\* C6 (amended): for a feed with an entry, the identifier is the suffix of the
\* first entry's id after the last of the occurrences of "/abs/" that a scan
\* from the left takes without overlap (the whole id when there is none), which
\* is the suffix after the last occurrence whenever no two occurrences overlap;
\* the URL is "https://arxiv.org/pdf/" followed by the identifier, and later
\* entries change nothing.
C6_IdAfterLastScannedAbs ==
    ResolvedPair =>
        LET id == rs_in.body[1] IN
        /\ rs_out.id = SuffixAfterLastScanned(id)
        /\ ~Overlapping(id) => rs_out.id = SuffixAfterLastAbs(id)
        /\ Occurrences(id) = {} => rs_out.id = id
        /\ rs_out.url = PdfUrlPrefix \o rs_out.id
        /\ ~rs_out.isStr /\ rs_out.str = ""

\* A feed of two entries whose first id holds overlapping occurrences of
\* "/abs/" has been resolved, to an identifier that is not the suffix after the
\* last occurrence.
C6_Witness ==
    /\ ResolvedPair
    /\ Len(rs_in.body) = 2
    /\ Overlapping(rs_in.body[1])
    /\ rs_out.id # SuffixAfterLastAbs(rs_in.body[1])

\* C7: format_text's output holds no backslash followed by n, t or r, no two
\* whitespace characters in a row and no leading or trailing whitespace, for
\* every input; the empty string gives the empty string.
C7_FormatTextClean ==
    ft_done =>
        /\ Clean(ft_out)
        /\ ft_in = <<>> => ft_out = <<>>

\* format_text has returned a non-empty string for an input with an artifact,
\* a run of whitespace and trailing whitespace.
C7_Witness ==
    /\ ft_done /\ ft_out # <<>>
    /\ HasArtifact(ft_in) /\ HasSpaceRun(ft_in) /\ IsSpace(Last(ft_in))

SearchInFlight(r) == r.pc = "await_search"

\* C8 (as claimed): every search request in flight carries ti:"<title>" whose
\* title is the normalizer's output and is non-empty, whitespace-collapsed and
\* free of artifacts, whatever title the caller passed.
C8_QueryNonEmpty ==
    \A i \in Inv :
        SearchInFlight(inv[i]) =>
            /\ inv[i].payload = SearchPayload(inv[i].formatted_title)
            /\ Clean(inv[i].formatted_title)
            /\ inv[i].formatted_title # <<>>

\* C8 (amended): every search request in flight carries ti:"<title>" whose
\* title is whitespace-collapsed, trimmed and free of artifacts; it is empty
\* exactly when the caller's title holds nothing but whitespace and escape
\* artifacts, and the request is sent all the same.
C8_QueryNormalized ==
    \A i \in Inv :
        SearchInFlight(inv[i]) =>
            LET q == SubSeq(inv[i].payload, 5, Len(inv[i].payload) - 1) IN
            /\ Len(inv[i].payload) >= 5
            /\ inv[i].payload = <<"t", "i", ":", "\"">> \o q \o <<"\"">>
            /\ Clean(q)
            /\ (q = <<>>) = OnlyBlank(inv[i].title)
            /\ inv[i].calls = <<"search">>

\* Two requests are in flight: one for a whitespace-only title, with an empty
\* query, and one for a title with an artifact, with a non-empty query.
C8_Witness ==
    \E i, j \in Inv :
        /\ SearchInFlight(inv[i]) /\ inv[i].title = <<" ", "TAB">>
        /\ inv[i].payload = <<"t", "i", ":", "\"", "\"">>
        /\ SearchInFlight(inv[j]) /\ HasArtifact(inv[j].title)
        /\ inv[j].formatted_title = <<"A", " ", "B">>

Wrote(r) == "write" \in Elems(r.calls)

====
